---- MODULE Spec2Model ----
(***************************************************************************)
(* Model of appdaemon_testing.hass_driver.HassDriver: the simulated clock  *)
(* with its schedule records (time_travel_to, run_*, cancel_timer) and the *)
(* entity state store with its listeners (set_state, listen_state, setup). *)
(* Instants are seconds; a datetime is the number of seconds since day 0.  *)
(***************************************************************************)
EXTENDS Integers, Sequences, FiniteSets, TLC

\* ---------------------------------------------------------------- bounds
Tick == 30
MaxTicks == 4
MaxTimers == 2
MaxSpys == 2
MaxSetupDepth == 2
MaxDepth == 2
MaxRuns == 2

\* ------------------------------------------------------ program constants
MinutelySec == 60
HourlySec == 60 * 60
DailySec == 60 * 60 * 24

None == "None"

\* base_date handed to the constructor: one minute before midnight, so that
\* the instants of the model lie on two calendar days
BaseDate == DailySec - 60
Instants == {BaseDate + Tick * i : i \in 0..MaxTicks}
MaxInstant == BaseDate + Tick * MaxTicks

Intervals == {Tick}
Delays == {0, Tick}

\* entity ids "<domain>.<object_id>" are the pairs <<domain, object_id>>, and a
\* domain used as a listener scope is <<domain>>
Entities == {<<"light", "a">>, <<"light", "b">>, <<"switch", "a">>}
Scopes == {<<"light">>, <<"light", "a">>}
Absent == "Absent"
Values == {None, "", "on"}
Attributes == {"state", "brightness"}

VARIABLES
    update_states,      \* HassDriver.update_states
    mocks,              \* the return_value of the time, datetime and date mocks
    current_datetime,   \* HassDriver._current_datetime
    schedulers,         \* HassDriver._schedulers, in insertion order; the handle is the index
    returned,           \* the last call made on the driver and what its caller got back
    calls,              \* per handle: how often the record's callback has been invoked
    fired,              \* the callbacks invoked since the last top-level call began, in order
    registered_at,      \* per handle: the current instant when the record was created
    registered_in,      \* per handle: the target of the time_travel_to whose callback created the record
    stack,              \* the calls in progress: time_travel_to frames and the callbacks they run
    setup_active,       \* HassDriver._setup_active
    setup_depth,        \* the number of `with setup():` blocks that are open
    states,             \* HassDriver._states
    state_spys          \* HassDriver._state_spys, all lists in one, in registration order

clock_vars == <<current_datetime, schedulers, calls, registered_at, registered_in, stack>>
store_vars == <<setup_active, setup_depth, states, state_spys>>
vars == <<update_states, mocks, returned, fired, clock_vars, store_vars>>

\* datetime.time() and datetime.date(): the second of the day and the day
TimeOf(instant) == instant % DailySec
DateOf(instant) == instant \div DailySec

\* ------------------------------------------------------------- Scheduler
Scheduler(start, frequency_sec) ==
    [start |-> start, frequency_sec |-> frequency_sec, run_count |-> 0,
     last_run |-> start, is_canceled |-> FALSE]

Handles == 1..Len(schedulers)

\* ------------------------------------------------------- time_travel_to
OneShotSkipped_refire(s, cur, new) ==
    s.frequency_sec < 1 /\ (
        \/ s.is_canceled
        \/ s.start < cur
        \/ s.start > new)

\* the condition of the `continue` for a record s
OneShotSkipped(s, cur, new) ==
    s.frequency_sec < 1 /\ (
        \/ s.is_canceled
        \/ s.start < cur
        \/ s.start > new
        \/ (s.start = cur /\ s.run_count > 0))

RECURSIVE RepeatingLoop_strict(_, _, _, _, _, _)
RepeatingLoop_strict(s, h, next_, cur, new, due) ==
    IF next_ <= new
    THEN IF next_ > cur
         THEN RepeatingLoop_strict([s EXCEPT !.run_count = @ + 1,
                                             !.last_run = @ + s.frequency_sec],
                                   h, next_ + s.frequency_sec, cur, new,
                                   Append(due, [instant |-> next_, handle |-> h]))
         ELSE RepeatingLoop_strict(s, h, next_ + s.frequency_sec, cur, new, due)
    ELSE [s |-> s, due |-> due]

RECURSIVE RepeatingLoop_exclusive(_, _, _, _, _, _)
RepeatingLoop_exclusive(s, h, next_, cur, new, due) ==
    IF next_ < new
    THEN IF next_ >= cur
         THEN RepeatingLoop_exclusive([s EXCEPT !.run_count = @ + 1,
                                                !.last_run = @ + s.frequency_sec],
                                      h, next_ + s.frequency_sec, cur, new,
                                      Append(due, [instant |-> next_, handle |-> h]))
         ELSE RepeatingLoop_exclusive(s, h, next_ + s.frequency_sec, cur, new, due)
    ELSE [s |-> s, due |-> due]

\* the while loop over the instants of a repeating record
RECURSIVE RepeatingLoop(_, _, _, _, _, _)
RepeatingLoop(s, h, next_, cur, new, due) ==
    IF next_ <= new
    THEN IF next_ >= cur
         THEN RepeatingLoop([s EXCEPT !.run_count = @ + 1,
                                      !.last_run = @ + s.frequency_sec],
                            h, next_ + s.frequency_sec, cur, new,
                            Append(due, [instant |-> next_, handle |-> h]))
         ELSE RepeatingLoop(s, h, next_ + s.frequency_sec, cur, new, due)
    ELSE [s |-> s, due |-> due]

\* one iteration of `for s in self._schedulers.values()`
VisitScheduler(s, h, cur, new, due) ==
    IF OneShotSkipped(s, cur, new)
    THEN [s |-> s, due |-> due]
    ELSE IF s.frequency_sec < 1
         THEN [s |-> [s EXCEPT !.run_count = @ + 1],
               due |-> Append(due, [instant |-> s.start, handle |-> h])]
         ELSE RepeatingLoop(s, h, s.last_run, cur, new, due)

\* the whole for loop: the records after it and callbacks_due
RECURSIVE CollectDue(_, _, _, _, _)
CollectDue(scheds, h, cur, new, due) ==
    IF h > Len(scheds)
    THEN [schedulers |-> scheds, due |-> due]
    ELSE LET r == VisitScheduler(scheds[h], h, cur, new, due)
         IN  CollectDue([scheds EXCEPT ![h] = r.s], h + 1, cur, new, r.due)

RECURSIVE InsertStable_front(_, _)
InsertStable_front(x, sorted) ==
    IF sorted = <<>> THEN <<x>>
    ELSE IF x.instant <= Head(sorted).instant
         THEN <<x>> \o sorted
         ELSE <<Head(sorted)>> \o InsertStable_front(x, Tail(sorted))

\* sorted(callbacks_due, key=lambda x: x[0]): a stable sort on the instant
RECURSIVE InsertStable(_, _)
InsertStable(x, sorted) ==
    IF sorted = <<>> THEN <<x>>
    ELSE IF x.instant < Head(sorted).instant
         THEN <<x>> \o sorted
         ELSE <<Head(sorted)>> \o InsertStable(x, Tail(sorted))

SortedDue_unsorted(due) == due

RECURSIVE SortedDue(_)
SortedDue(due) ==
    IF due = <<>> THEN <<>>
    ELSE InsertStable(due[Len(due)], SortedDue(SubSeq(due, 1, Len(due) - 1)))

\* the invocations of a batch, counted per handle
RECURSIVE CountCalls(_, _)
CountCalls(batch, counts) ==
    IF batch = <<>> THEN counts
    ELSE CountCalls(Tail(batch), [counts EXCEPT ![Head(batch).handle] = @ + 1])

TimeTravelSame_fires(new) ==
    /\ new = current_datetime
    /\ LET c == CollectDue(schedulers, 1, current_datetime, new, <<>>)
           batch == SortedDue(c.due)
       IN  /\ schedulers' = c.schedulers
           /\ fired' = batch
           /\ calls' = CountCalls(batch, calls)
    /\ returned' = [op |-> "time_travel_to", arg |-> new, value |-> None]
    /\ UNCHANGED <<update_states, mocks, current_datetime, registered_at, registered_in, stack, store_vars>>

\* time_travel_to(new_datetime) with new_datetime == simulation_time
TimeTravelSame(new) ==
    /\ new = current_datetime
    /\ returned' = [op |-> "time_travel_to", arg |-> new, value |-> None]
    /\ fired' = <<>>
    /\ UNCHANGED <<update_states, mocks, clock_vars, store_vars>>

TimeTravelPast_rewinds(new) ==
    /\ new < current_datetime
    /\ current_datetime' = new
    /\ returned' = [op |-> "time_travel_to", arg |-> new, value |-> "ValueError"]
    /\ fired' = <<>>
    /\ UNCHANGED <<update_states, mocks, schedulers, calls, registered_at, registered_in, stack, store_vars>>

\* time_travel_to(new_datetime) with new_datetime < simulation_time
TimeTravelPast(new) ==
    /\ new < current_datetime
    /\ returned' = [op |-> "time_travel_to", arg |-> new, value |-> "ValueError"]
    /\ fired' = <<>>
    /\ UNCHANGED <<update_states, mocks, clock_vars, store_vars>>

\* time_travel_to(new_datetime) into the future, with callbacks that only count
TimeTravel(new) ==
    /\ new > current_datetime
    /\ LET c == CollectDue(schedulers, 1, current_datetime, new, <<>>)
           batch == SortedDue(c.due)
       IN  /\ schedulers' = c.schedulers
           /\ fired' = batch
           /\ calls' = CountCalls(batch, calls)
    /\ current_datetime' = new
    /\ returned' = [op |-> "time_travel_to", arg |-> new, value |-> None]
    /\ UNCHANGED <<update_states, mocks, registered_at, registered_in, stack, store_vars>>

\* ------------------------------------------- time_travel_to, step by step
\* The callbacks run synchronously inside time_travel_to and may call the
\* driver again. A frame of the stack is a time_travel_to that has computed
\* its sorted callbacks_due and is invoking them, or a callback that is running.
Top == stack[Len(stack)]
Pop == SubSeq(stack, 1, Len(stack) - 1)
AtTopLevel == stack = <<>>
InCallback == stack # <<>> /\ Top.kind = "callback"
TravelDepth == Cardinality({i \in DOMAIN stack : stack[i].kind = "time_travel_to"})

\* the target of the innermost time_travel_to in progress; the current instant
\* when none is
RunningTarget ==
    LET travels == {i \in DOMAIN stack : stack[i].kind = "time_travel_to"}
    IN  IF travels = {} THEN current_datetime
        ELSE stack[CHOOSE i \in travels : \A j \in travels : j <= i].target

\* lines 100-125: the guards, the for loop and the sort
TimeTravelBegin(new) ==
    /\ AtTopLevel \/ InCallback
    /\ TravelDepth < MaxDepth
    /\ new > current_datetime
    /\ LET c == CollectDue(schedulers, 1, current_datetime, new, <<>>)
       IN  /\ \A h \in Handles : c.schedulers[h].run_count <= MaxRuns
           /\ schedulers' = c.schedulers
           /\ stack' = Append(stack, [kind |-> "time_travel_to", target |-> new,
                                      due |-> SortedDue(c.due)])
    /\ fired' = IF AtTopLevel THEN <<>> ELSE fired
    /\ returned' = [op |-> "time_travel_to", arg |-> new, value |-> "running"]
    /\ UNCHANGED <<update_states, mocks, current_datetime, calls, registered_at, registered_in, store_vars>>

\* lines 126-127: the next callback of the batch is called
InvokeCallback ==
    /\ stack # <<>> /\ Top.kind = "time_travel_to" /\ Top.due # <<>>
    /\ LET d == Head(Top.due)
       IN  /\ calls' = [calls EXCEPT ![d.handle] = @ + 1]
           /\ fired' = Append(fired, d)
           /\ stack' = Append([stack EXCEPT ![Len(stack)].due = Tail(@)],
                              [kind |-> "callback", handle |-> d.handle])
    /\ UNCHANGED <<update_states, mocks, returned, current_datetime, schedulers,
                   registered_at, registered_in, store_vars>>

\* the running callback returns
CallbackReturn ==
    /\ InCallback
    /\ stack' = Pop
    /\ UNCHANGED <<update_states, mocks, returned, fired, current_datetime, schedulers, calls,
                   registered_at, registered_in, store_vars>>

\* the running callback raises: no frame below it catches, so every
\* time_travel_to in progress is left without reaching line 129
CallbackRaise ==
    /\ InCallback
    /\ stack' = <<>>
    /\ returned' = [op |-> "time_travel_to", arg |-> stack[1].target, value |-> "Exception"]
    /\ UNCHANGED <<update_states, mocks, fired, current_datetime, schedulers, calls,
                   registered_at, registered_in, store_vars>>

\* line 129, after the last callback of the batch
TimeTravelEnd ==
    /\ stack # <<>> /\ Top.kind = "time_travel_to" /\ Top.due = <<>>
    /\ current_datetime' = Top.target
    /\ stack' = Pop
    /\ returned' = [op |-> "time_travel_to", arg |-> Top.target, value |-> None]
    /\ UNCHANGED <<update_states, mocks, fired, schedulers, calls, registered_at, registered_in, store_vars>>

\* ---------------------------------------------------- scheduling primitives
\* _set_scheduler: a new record under a fresh handle
set_scheduler(start, frequency_sec) ==
    /\ schedulers' = Append(schedulers, Scheduler(start, frequency_sec))
    /\ calls' = Append(calls, 0)
    /\ registered_at' = Append(registered_at, current_datetime)
    /\ registered_in' = Append(registered_in, RunningTarget)

\* possible_side_effects_state_change: fn runs only if update_states, and
\* inner has no return statement
SideEffect(op, start, frequency_sec) ==
    /\ Len(schedulers) < MaxTimers
    /\ IF update_states
       THEN set_scheduler(start, frequency_sec)
       ELSE UNCHANGED <<schedulers, calls, registered_at, registered_in>>
    /\ returned' = [op |-> op, arg |-> None, value |-> None]
    /\ fired' = IF stack = <<>> THEN <<>> ELSE fired
    /\ UNCHANGED <<update_states, mocks, current_datetime, stack, store_vars>>

\* run_at and run_once share _se_run_at
se_run_at(op, start) == SideEffect(op, start, 0)
se_run_daily(start) == SideEffect("run_daily", start, DailySec)
se_run_hourly(start) == SideEffect("run_hourly", start, HourlySec)
se_run_minutely(start) == SideEffect("run_minutely", start, MinutelySec)
se_run_every(start, interval) == SideEffect("run_every", start, interval)
se_run_in(delay) ==
    /\ current_datetime + delay <= MaxInstant
    /\ SideEffect("run_in", current_datetime + delay, 0)

\* _se_cancel_timer
se_cancel_timer(handle) ==
    /\ handle \in Handles
    /\ schedulers' = [schedulers EXCEPT ![handle].is_canceled = TRUE]
    /\ returned' = [op |-> "cancel_timer", arg |-> None, value |-> None]
    /\ fired' = IF stack = <<>> THEN <<>> ELSE fired
    /\ UNCHANGED <<update_states, mocks, current_datetime, calls, registered_at, registered_in, stack, store_vars>>

\* ------------------------------------------------------------------ setup
\* `with setup():` is entered: the generator runs up to its yield
SetupEnter ==
    /\ setup_depth < MaxSetupDepth
    /\ setup_active' = TRUE
    /\ setup_depth' = setup_depth + 1
    /\ returned' = [op |-> "setup.enter", arg |-> None, value |-> None]
    /\ fired' = <<>>
    /\ UNCHANGED <<update_states, mocks, clock_vars, states, state_spys>>

\* the block ends normally: the generator resumes after its yield
SetupExit ==
    /\ setup_depth > 0
    /\ setup_active' = FALSE
    /\ setup_depth' = setup_depth - 1
    /\ returned' = [op |-> "setup.exit", arg |-> None, value |-> None]
    /\ fired' = <<>>
    /\ UNCHANGED <<update_states, mocks, clock_vars, states, state_spys>>

\* the block raises: the exception is thrown into the generator at its yield,
\* which has no try/finally around it, so the assignment after it never runs
SetupRaise ==
    /\ setup_depth > 0
    /\ setup_depth' = setup_depth - 1
    /\ returned' = [op |-> "setup.exit", arg |-> None, value |-> "Exception"]
    /\ fired' = <<>>
    /\ UNCHANGED <<update_states, mocks, clock_vars, setup_active, states, state_spys>>

\* -------------------------------------------------------------- set_state
\* defaultdict(lambda: {"state": None})
DefaultState == [a \in Attributes |-> IF a = "state" THEN None ELSE Absent]

\* dict.get(attribute_name)
Get(entry, attribute_name) ==
    IF entry[attribute_name] = Absent THEN None ELSE entry[attribute_name]

\* Python truth value of the values of the model
Truthy(v) == v \notin {None, ""}

\* previous or prev_state.get(attribute_name)
OldValue(previous, prev_state, attribute_name) ==
    IF Truthy(previous) THEN previous ELSE Get(prev_state, attribute_name)

\* trigger = not self._setup_active when it is None
Trigger(trigger) == IF trigger = None THEN ~setup_active ELSE trigger = "True"

\* domain, _ = entity.split(".") ; the key of the domain's listeners
DomainOf(entity) == <<entity[1]>>

\* self._state_spys[scope], the registration number of each spy kept with it
RECURSIVE SpysOf(_, _, _)
SpysOf(spys, scope, i) ==
    IF i > Len(spys) THEN <<>>
    ELSE IF spys[i].scope = scope
         THEN <<[spys[i] EXCEPT !.callback = i]>> \o SpysOf(spys, scope, i + 1)
         ELSE SpysOf(spys, scope, i + 1)

Satisfied_no_old(spy, attribute_name, old_value, new_value) ==
    LET sat_attr == spy.attribute = attribute_name \/ spy.attribute = "all"
        sat_new == spy.new = None \/ spy.new = new_value
    IN  sat_new /\ sat_attr

\* the three sat_* tests of one spy
Satisfied(spy, attribute_name, old_value, new_value) ==
    LET sat_attr == spy.attribute = attribute_name \/ spy.attribute = "all"
        sat_new == spy.new = None \/ spy.new = new_value
        sat_old == spy.old = None \/ spy.old = old_value
    IN  sat_old /\ sat_new /\ sat_attr

\* the call spy.callback(entity, param_attribute, param_old, param_new, ...)
Invocation(spy, entity, attribute_name, old_value, new_value, prev_state, state_entry) ==
    IF spy.attribute = "all"
    THEN [callback |-> spy.callback, entity |-> entity, attribute |-> None,
          old |-> prev_state, new |-> state_entry]
    ELSE [callback |-> spy.callback, entity |-> entity, attribute |-> attribute_name,
          old |-> old_value, new |-> new_value]

\* the loop over self._state_spys[domain] + self._state_spys[entity]
RECURSIVE Notify(_, _, _, _, _, _, _)
Notify(spys, entity, attribute_name, old_value, new_value, prev_state, state_entry) ==
    IF spys = <<>> THEN <<>>
    ELSE LET spy == Head(spys)
             rest == Notify(Tail(spys), entity, attribute_name, old_value, new_value,
                            prev_state, state_entry)
         IN  IF Satisfied(spy, attribute_name, old_value, new_value)
             THEN <<Invocation(spy, entity, attribute_name, old_value, new_value,
                               prev_state, state_entry)>> \o rest
             ELSE rest

\* set_state(entity, state, attribute_name=, previous=, trigger=), with
\* listeners that only record their arguments
set_state(entity, state, attribute_name, previous, trigger) ==
    LET prev_state == states[entity]
        old_value == OldValue(previous, prev_state, attribute_name)
        new_value == state
        state_entry == [prev_state EXCEPT ![attribute_name] = new_value]
        spys == SpysOf(state_spys, DomainOf(entity), 1) \o SpysOf(state_spys, entity, 1)
    IN  /\ returned' = [op |-> "set_state",
                        arg |-> [entity |-> entity, state |-> state,
                                 attribute_name |-> attribute_name,
                                 previous |-> previous, trigger |-> trigger],
                        value |-> None]
        /\ IF old_value = new_value
           THEN /\ fired' = <<>>
                /\ UNCHANGED states
           ELSE /\ states' = [states EXCEPT ![entity] = state_entry]
                /\ fired' = IF Trigger(trigger)
                            THEN Notify(spys, entity, attribute_name, old_value,
                                        new_value, prev_state, state_entry)
                            ELSE <<>>
        /\ UNCHANGED <<update_states, mocks, clock_vars, setup_active, setup_depth, state_spys>>

\* _se_listen_state
se_listen_state(entity, attribute, new, old) ==
    /\ Len(state_spys) < MaxSpys
    /\ state_spys' = Append(state_spys,
                            [scope |-> entity, callback |-> 0,
                             attribute |-> IF Truthy(attribute) THEN attribute ELSE "state",
                             new |-> new, old |-> old])
    /\ returned' = [op |-> "listen_state", arg |-> None, value |-> "uuid"]
    /\ fired' = <<>>
    /\ UNCHANGED <<update_states, mocks, clock_vars, setup_active, setup_depth, states>>

\* ------------------------------------------------- set_state, step by step
\* The listeners run synchronously inside set_state and may call the driver
\* again or fail. A set_state frame holds the locals of a call that is in its
\* notification loop; a listener frame is a listener that is running.
InListener == stack # <<>> /\ Top.kind = "listener"
NotifyDepth == Cardinality({i \in DOMAIN stack : stack[i].kind = "set_state"})

\* the spys of the loop that pass the three sat_* tests, in the order of the loop
RECURSIVE SatisfiedSpys(_, _, _, _)
SatisfiedSpys(spys, attribute_name, old_value, new_value) ==
    IF spys = <<>> THEN <<>>
    ELSE LET rest == SatisfiedSpys(Tail(spys), attribute_name, old_value, new_value)
         IN  IF Satisfied(Head(spys), attribute_name, old_value, new_value)
             THEN <<Head(spys)>> \o rest
             ELSE rest

\* lines 195-215: set_state up to the head of its notification loop
SetStateBegin(entity, state, attribute_name, previous, trigger) ==
    LET prev_state == states[entity]
        old_value == OldValue(previous, prev_state, attribute_name)
        new_value == state
        state_entry == [prev_state EXCEPT ![attribute_name] = new_value]
        spys == SpysOf(state_spys, DomainOf(entity), 1) \o SpysOf(state_spys, entity, 1)
        arg == [entity |-> entity, state |-> state, attribute_name |-> attribute_name,
                previous |-> previous, trigger |-> trigger]
    IN  /\ AtTopLevel \/ InCallback \/ InListener
        /\ NotifyDepth < MaxDepth
        /\ fired' = IF AtTopLevel THEN <<>> ELSE fired
        /\ IF old_value = new_value
           THEN /\ returned' = [op |-> "set_state", arg |-> arg, value |-> None]
                /\ UNCHANGED <<states, stack>>
           ELSE /\ states' = [states EXCEPT ![entity] = state_entry]
                /\ IF Trigger(trigger)
                   THEN /\ returned' = [op |-> "set_state", arg |-> arg, value |-> "running"]
                        /\ stack' = Append(stack,
                              [kind |-> "set_state", arg |-> arg, old_value |-> old_value,
                               prev_state |-> prev_state, state_entry |-> state_entry,
                               spys |-> SatisfiedSpys(spys, attribute_name, old_value,
                                                      new_value)])
                   ELSE /\ returned' = [op |-> "set_state", arg |-> arg, value |-> None]
                        /\ UNCHANGED stack
        /\ UNCHANGED <<update_states, mocks, current_datetime, schedulers, calls,
                       registered_at, registered_in, setup_active, setup_depth, state_spys>>

\* lines 215-225: one pass of the loop that calls a listener; copy(state_entry)
\* is taken from the entity's mapping as it is in this pass
InvokeListener ==
    /\ stack # <<>> /\ Top.kind = "set_state" /\ Top.spys # <<>>
    /\ LET spy == Head(Top.spys)
           a == Top.arg
       IN  /\ fired' = Append(fired, Invocation(spy, a.entity, a.attribute_name,
                                                Top.old_value, a.state, Top.prev_state,
                                                states[a.entity]))
           /\ stack' = Append([stack EXCEPT ![Len(stack)].spys = Tail(@)],
                              [kind |-> "listener", callback |-> spy.callback])
    /\ UNCHANGED <<update_states, mocks, returned, current_datetime, schedulers, calls,
                   registered_at, registered_in, store_vars>>

\* the running listener returns
ListenerReturn ==
    /\ InListener
    /\ stack' = Pop
    /\ UNCHANGED <<update_states, mocks, returned, fired, current_datetime, schedulers, calls,
                   registered_at, registered_in, store_vars>>

ListenerRaise_continues ==
    /\ InListener
    /\ stack' = Pop
    /\ returned' = IF stack[1].kind = "set_state"
                   THEN [op |-> "set_state", arg |-> stack[1].arg, value |-> "Exception"]
                   ELSE [op |-> "time_travel_to", arg |-> stack[1].target,
                         value |-> "Exception"]
    /\ UNCHANGED <<update_states, mocks, fired, current_datetime, schedulers, calls,
                   registered_at, registered_in, store_vars>>

\* the running listener raises: neither set_state nor time_travel_to catches, so
\* every call in progress is left and the outermost caller gets the exception
ListenerRaise ==
    /\ InListener
    /\ stack' = <<>>
    /\ returned' = IF stack[1].kind = "set_state"
                   THEN [op |-> "set_state", arg |-> stack[1].arg, value |-> "Exception"]
                   ELSE [op |-> "time_travel_to", arg |-> stack[1].target,
                         value |-> "Exception"]
    /\ UNCHANGED <<update_states, mocks, fired, current_datetime, schedulers, calls,
                   registered_at, registered_in, store_vars>>

\* the notification loop is exhausted and set_state returns
SetStateEnd ==
    /\ stack # <<>> /\ Top.kind = "set_state" /\ Top.spys = <<>>
    /\ stack' = Pop
    /\ returned' = [op |-> "set_state", arg |-> Top.arg, value |-> None]
    /\ UNCHANGED <<update_states, mocks, fired, current_datetime, schedulers, calls,
                   registered_at, registered_in, store_vars>>

\* ------------------------------------------------------------ specification
Init ==
    /\ update_states \in BOOLEAN
    /\ current_datetime = BaseDate
    /\ mocks = [time |-> TimeOf(BaseDate), datetime |-> BaseDate, date |-> DateOf(BaseDate)]
    /\ schedulers = <<>>
    /\ returned = [op |-> "init", arg |-> None, value |-> None]
    /\ calls = <<>>
    /\ fired = <<>>
    /\ registered_at = <<>>
    /\ registered_in = <<>>
    /\ stack = <<>>
    /\ setup_active = FALSE
    /\ setup_depth = 0
    /\ states = [e \in Entities |-> DefaultState]
    /\ state_spys = <<>>

Next ==
    \/ \E new \in Instants : TimeTravelSame(new)
    \/ \E new \in Instants : TimeTravelPast(new)
    \/ \E new \in Instants : TimeTravel(new)
    \/ \E op \in {"run_at", "run_once"}, start \in Instants : se_run_at(op, start)
    \/ \E start \in Instants : se_run_daily(start)
    \/ \E start \in Instants : se_run_hourly(start)
    \/ \E start \in Instants : se_run_minutely(start)
    \/ \E start \in Instants, interval \in Intervals : se_run_every(start, interval)
    \/ \E delay \in Delays : se_run_in(delay)
    \/ \E handle \in Handles : se_cancel_timer(handle)

Spec == Init /\ [][Next]_vars

\* the clock with callbacks that call the driver themselves or fail
NextReentrant ==
    \/ \E new \in Instants : TimeTravelBegin(new)
    \/ InvokeCallback
    \/ CallbackReturn
    \/ CallbackRaise
    \/ TimeTravelEnd
    \/ \E start \in Instants :
          (AtTopLevel \/ InCallback) /\ se_run_at("run_at", start)
    \/ \E start \in Instants, interval \in Intervals :
          (AtTopLevel \/ InCallback) /\ se_run_every(start, interval)
    \/ \E delay \in Delays : (AtTopLevel \/ InCallback) /\ se_run_in(delay)
    \/ \E handle \in Handles : (AtTopLevel \/ InCallback) /\ se_cancel_timer(handle)

SpecReentrant == Init /\ [][NextReentrant]_vars

\* the calls the specifications make on the state store: every combination of
\* value, forced previous value and trigger on light.a's state, and plain calls
\* on its brightness and on the other two entities
SetStateCalls ==
    [entity : {<<"light", "a">>}, state : Values, attribute_name : {"state"},
     previous : Values, trigger : {None, "True", "False"}]
    \cup
    [entity : {<<"light", "a">>}, state : Values, attribute_name : {"brightness"},
     previous : {None}, trigger : {None}]
    \cup
    [entity : Entities \ {<<"light", "a">>}, state : {"on"},
     attribute_name : {"state"}, previous : {None}, trigger : {None}]

\* listeners with at most one of the three filters set
ListenCalls ==
    {c \in [entity : Scopes, attribute : {None, "all"}, new : {None, "on"},
            old : {None, "on"}] :
        Cardinality({f \in {"attribute", "new", "old"} : c[f] # None}) <= 1}

\* the state store and its listeners, outside of setup blocks
NextState ==
    \/ \E c \in SetStateCalls :
          set_state(c.entity, c.state, c.attribute_name, c.previous, c.trigger)
    \/ \E c \in ListenCalls : se_listen_state(c.entity, c.attribute, c.new, c.old)

SpecState == Init /\ [][NextState]_vars

\* setup blocks around calls of set_state on light.a
NextSetup ==
    \/ SetupEnter
    \/ SetupExit
    \/ SetupRaise
    \/ \E c \in SetStateCalls :
          /\ c.entity = <<"light", "a">> /\ c.previous = None
          /\ set_state(c.entity, c.state, c.attribute_name, c.previous, c.trigger)
    \/ \E c \in ListenCalls :
          /\ c.new = None /\ c.old = None
          /\ se_listen_state(c.entity, c.attribute, c.new, c.old)

SpecSetup == Init /\ [][NextSetup]_vars

\* the calls a test makes on light.a's state when listeners are watched
NotifyCalls ==
    {c \in SetStateCalls :
        /\ c.entity = <<"light", "a">> /\ c.attribute_name = "state"
        /\ c.previous = None /\ c.trigger \in {None, "False"}}

\* the calls a listener makes on the state store
NestedCalls ==
    [entity : {<<"light", "a">>}, state : {"on"}, attribute_name : Attributes,
     previous : {None}, trigger : {None}]

\* the state store with listeners that call set_state themselves or fail
NextNotify ==
    \/ \E c \in NotifyCalls :
          /\ AtTopLevel
          /\ SetStateBegin(c.entity, c.state, c.attribute_name, c.previous, c.trigger)
    \/ \E c \in NestedCalls :
          /\ InListener
          /\ SetStateBegin(c.entity, c.state, c.attribute_name, c.previous, c.trigger)
    \/ InvokeListener
    \/ ListenerReturn
    \/ ListenerRaise
    \/ SetStateEnd
    \/ \E c \in ListenCalls :
          /\ AtTopLevel /\ c.new = None /\ c.old = None
          /\ se_listen_state(c.entity, c.attribute, c.new, c.old)

SpecNotify == Init /\ [][NextNotify]_vars

\* timers registered at the start whose callbacks switch light.a on, listeners
\* on that state, and callbacks and listeners that fail
NextFailing ==
    \/ \E delay \in Delays :
          AtTopLevel /\ current_datetime = BaseDate /\ se_run_in(delay)
    \/ \E new \in Instants :
          AtTopLevel /\ new <= BaseDate + 2 * Tick /\ TimeTravelBegin(new)
    \/ InvokeCallback
    \/ CallbackReturn
    \/ CallbackRaise
    \/ TimeTravelEnd
    \/ \E c \in NotifyCalls :
          /\ AtTopLevel \/ (InCallback /\ c.state = "on")
          /\ c.trigger = None /\ c.state # None
          /\ SetStateBegin(c.entity, c.state, c.attribute_name, c.previous, c.trigger)
    \/ InvokeListener
    \/ ListenerReturn
    \/ ListenerRaise
    \/ SetStateEnd
    \/ \E c \in ListenCalls :
          /\ AtTopLevel /\ c.entity = <<"light", "a">>
          /\ c.attribute = None /\ c.new = None /\ c.old = None
          /\ se_listen_state(c.entity, c.attribute, c.new, c.old)

SpecFailing == Init /\ [][NextFailing]_vars

\* ------------------------------------------------------------- properties

OneShot(h) == schedulers[h].frequency_sec < 1
Repeating(h) == schedulers[h].frequency_sec >= 1
Invocations(log, h) == Cardinality({k \in DOMAIN log : log[k].handle = h})
Ascending(log) == \A k \in 1..(Len(log) - 1) : log[k].instant <= log[k + 1].instant

\* the fire instants of record s that an advance from cur to new has to serve:
\* a one-shot that has not fired with its start in [cur, new], and the instants
\* start + i * period of a repeating record in (cur, new]
DueInstants(s, cur, new) ==
    IF s.is_canceled THEN {}
    ELSE IF s.frequency_sec < 1
         THEN IF s.start >= cur /\ s.start <= new /\ s.run_count = 0
              THEN {s.start} ELSE {}
         ELSE {i \in (cur + 1)..new :
                  i >= s.start /\ (i - s.start) % s.frequency_sec = 0}

\* C1: a time_travel_to(B) from an earlier instant invokes the callbacks in
\* ascending order of their fire instants, invokes every callback that falls due
\* in the advance, and leaves the current instant at exactly B.
C1_AscendingOrderAndArrival ==
    [][(returned'.op = "time_travel_to" /\ returned'.arg > current_datetime)
         => /\ Ascending(fired')
            /\ \A h \in Handles :
                  \A i \in DueInstants(schedulers[h], current_datetime, returned'.arg) :
                     \E k \in DOMAIN fired' : fired'[k] = [instant |-> i, handle |-> h]
            /\ current_datetime' = returned'.arg]_vars

\* two records registered in the opposite order of their fire instants have
\* both fired in one advance, the later registered one first
C1_Witness ==
    /\ returned.op = "time_travel_to" /\ returned.arg = current_datetime
    /\ \E j, k \in DOMAIN fired :
          /\ j < k
          /\ fired[j].handle > fired[k].handle
          /\ fired[j].instant < fired[k].instant

\* C2: a one-shot record registered for an instant T that is not in the past has
\* been invoked 0 times while the current instant is before T, exactly once as
\* soon as an advance has reached or crossed T, and never more than once.
C2_OneShotExactlyOnce ==
    \A h \in Handles :
       OneShot(h) =>
          /\ calls[h] <= 1
          /\ (registered_at[h] <= schedulers[h].start /\ ~schedulers[h].is_canceled)
                => calls[h] = IF current_datetime < schedulers[h].start THEN 0
                              ELSE IF current_datetime > registered_at[h] THEN 1
                              ELSE 0

\* a one-shot that fired in an earlier advance has just sat out a later one
C2_Witness ==
    /\ returned.op = "time_travel_to" /\ returned.value = None
    /\ \E h \in Handles :
          /\ OneShot(h) /\ calls[h] = 1
          /\ schedulers[h].start < current_datetime
          /\ Invocations(fired, h) = 0

\* C3: a repeating record with period P >= 1 and anchor T not earlier than the
\* instant of its registration has been invoked, once advances have led to the
\* instant t, 0 times if t < T and floor((t - T) / P) + 1 times if t >= T.
C3_RepeatingCount ==
    \A h \in Handles :
       (Repeating(h) /\ registered_at[h] <= schedulers[h].start
                     /\ ~schedulers[h].is_canceled)
          => calls[h] = IF current_datetime < schedulers[h].start THEN 0
                        ELSE IF current_datetime = registered_at[h] THEN 0
                        ELSE (current_datetime - schedulers[h].start)
                                \div schedulers[h].frequency_sec + 1

\* a repeating record has fired at least twice and the clock stands between two
\* of its instants
C3_Witness ==
    \E h \in Handles :
       /\ Repeating(h) /\ registered_at[h] <= schedulers[h].start
       /\ ~schedulers[h].is_canceled
       /\ calls[h] >= 2
       /\ (current_datetime - schedulers[h].start) % schedulers[h].frequency_sec # 0

\* C4: once cancel_timer was called on a record before its due instant, the
\* record's callback is not invoked by any later advance.
C4_CanceledNeverFires ==
    [][\A h \in Handles :
          (schedulers[h].is_canceled /\ current_datetime < schedulers[h].start)
             => calls'[h] = calls[h]]_vars

SchedulingPrimitives ==
    {"run_at", "run_once", "run_in", "run_daily", "run_hourly", "run_minutely",
     "run_every"}

\* C5: every scheduling primitive returns a handle to its caller.
C5_HandleReturned ==
    returned.op \in SchedulingPrimitives => returned.value # None

\* C6: the setup flag is false after a setup() block was left, on any exit path.
C6_FlagResetOnExit ==
    [][setup_depth' < setup_depth => ~setup_active']_vars

\* C7: a set_state with trigger unspecified that runs while a setup() block is
\* open invokes no listener.
C7_SilentInsideSetup ==
    [][(returned'.op = "set_state" /\ returned'.arg.trigger = None /\ setup_depth > 0)
         => fired' = <<>>]_vars

\* the spy is registered on the entity's domain or on the entity itself
InScope(spy, entity) == spy.scope = <<entity[1]>> \/ spy.scope = entity

FiltersMatch(spy, attribute_name, old_value, new_value) ==
    /\ spy.attribute \in {attribute_name, "all"}
    /\ spy.new \in {None, new_value}
    /\ spy.old \in {None, old_value}

\* C8: on a notifying set_state a listener is invoked (once) if and only if it is
\* registered on the entity's domain or on the entity itself and its attribute,
\* new-value and old-value filters all match.
C8_ScopeAndFilters ==
    [][LET a == returned'.arg
           old_value == OldValue(a.previous, states[a.entity], a.attribute_name)
       IN  (/\ returned'.op = "set_state"
            /\ a.trigger = "True" \/ (a.trigger = None /\ ~setup_active)
            /\ old_value # a.state)
              => \A i \in DOMAIN state_spys :
                    Cardinality({k \in DOMAIN fired' : fired'[k].callback = i})
                       = IF /\ InScope(state_spys[i], a.entity)
                            /\ FiltersMatch(state_spys[i], a.attribute_name,
                                            old_value, a.state)
                         THEN 1 ELSE 0]_vars

\* a change of light.b has invoked a listener of the domain light and has not
\* invoked a listener of light.a
C8_Witness ==
    /\ returned.op = "set_state" /\ returned.arg.entity = <<"light", "b">>
    /\ \E i, j \in DOMAIN state_spys :
          /\ state_spys[i].scope = <<"light">>
          /\ state_spys[j].scope = <<"light", "a">>
          /\ \E k \in DOMAIN fired : fired[k].callback = i
          /\ \A k \in DOMAIN fired : fired[k].callback # j

\* C9: the time(), datetime() and date() accessors return the components of the
\* current simulated instant.
C9_AccessorsFollowClock ==
    /\ mocks.datetime = current_datetime
    /\ mocks.time = TimeOf(current_datetime)
    /\ mocks.date = DateOf(current_datetime)

\* C10: no operation leaves the current instant earlier than it was.
C10_ClockMonotonic ==
    [][current_datetime' >= current_datetime]_vars

\* C11: a timer that a fired callback cancels while it is still waiting in the
\* batch of the advance is not invoked; stated for the one-shot records, which
\* can only be in a batch and canceled if they were canceled after the batch
\* was collected.
C11_CanceledInBatchNotInvoked ==
    [][\A h \in Handles :
          (OneShot(h) /\ schedulers[h].is_canceled) => calls'[h] = calls[h]]_vars

\* C12: a one-shot whose anchor lies at or before the instant of its
\* registration has been invoked exactly once as soon as the clock has
\* advanced past that instant.
C12_PastOneShotEligible ==
    \A h \in Handles :
       (/\ OneShot(h) /\ ~schedulers[h].is_canceled
        /\ schedulers[h].start <= registered_at[h]
        /\ current_datetime > registered_at[h])
          => calls[h] = 1

\* the record is repeating, not canceled, its anchor was not in the past when it
\* was registered, and advances have led to the instant anchor + k * period
ReachedAligned(h) ==
    /\ Repeating(h) /\ ~schedulers[h].is_canceled
    /\ registered_at[h] <= schedulers[h].start
    /\ current_datetime > registered_at[h]
    /\ current_datetime >= schedulers[h].start
    /\ (current_datetime - schedulers[h].start) % schedulers[h].frequency_sec = 0

Periods(h) == (current_datetime - schedulers[h].start) \div schedulers[h].frequency_sec

\* C13 as stated: advanced to anchor + k * period, the record has fired k times.
C13_FiresKTimes ==
    \A h \in Handles : ReachedAligned(h) => calls[h] = Periods(h)

\* C13 amended: advanced to anchor + k * period, the record has fired k + 1
\* times, the fire at the anchor included.
C13_FiresKPlusOneTimes ==
    \A h \in Handles : ReachedAligned(h) => calls[h] = Periods(h) + 1

\* a repeating record stands on its second instant or a later one, reached in
\* more than one advance
C13_Witness ==
    /\ returned.op = "time_travel_to"
    /\ \E h \in Handles :
          /\ ReachedAligned(h) /\ Periods(h) >= 1
          /\ Invocations(fired, h) < calls[h]

\* C14: a time_travel_to whose target is before the current instant fails
\* with ValueError and leaves the clock, every record (fire count, next-due
\* instant, canceled flag) and the callbacks' invocation counts as they were.
C14_PastFailsAndMutatesNothing ==
    [][(returned'.op = "time_travel_to" /\ returned'.arg < current_datetime)
          => /\ returned'.value = "ValueError"
             /\ fired' = <<>>
             /\ UNCHANGED <<current_datetime, schedulers, calls>>]_vars

\* a time_travel_to into the past has failed while a record had an instant
\* between the target and the current instant and another still ahead
C14_Witness ==
    /\ returned.op = "time_travel_to" /\ returned.value = "ValueError"
    /\ \E h \in Handles :
          /\ Repeating(h) /\ ~schedulers[h].is_canceled
          /\ returned.arg <= schedulers[h].start
          /\ schedulers[h].run_count >= 1

\* C15: a time_travel_to to the current instant invokes no callback and changes
\* neither the clock nor any record, even with an un-fired record anchored at
\* the current instant.
C15_SameInstantNoOp ==
    [][(returned'.op = "time_travel_to" /\ returned'.arg = current_datetime)
          => /\ returned'.value = None
             /\ fired' = <<>>
             /\ UNCHANGED <<current_datetime, schedulers, calls>>]_vars

\* a time_travel_to to the current instant has returned while a one-shot and a
\* repeating record anchored at that instant had not fired yet
C15_Witness ==
    /\ returned.op = "time_travel_to" /\ returned.value = None
    /\ returned.arg = current_datetime
    /\ \E h, g \in Handles :
          /\ OneShot(h) /\ Repeating(g)
          /\ \A i \in {h, g} :
                /\ ~schedulers[i].is_canceled
                /\ schedulers[i].start = current_datetime
                /\ schedulers[i].run_count = 0

\* the old value as the claims resolve it: the forced previous value whenever one
\* is supplied, the attribute's stored value otherwise
ResolvedOld(a) ==
    IF a.previous # None THEN a.previous ELSE Get(states[a.entity], a.attribute_name)

\* C16: a set_state whose value equals the resolved old value changes no stored
\* attribute value and invokes no listener, whatever the trigger argument.
C16_EqualValueNoOp ==
    [][LET a == returned'.arg
       IN  (returned'.op = "set_state" /\ a.state = ResolvedOld(a))
              => (states' = states /\ fired' = <<>>)]_vars

\* C17: a listener registered with attribute "all" is called with no attribute
\* name, with the entity's mapping before the mutation as old and the mapping
\* after it as new, and the old mapping does not hold the new value.
C17_WildcardSnapshots ==
    [][LET a == returned'.arg
       IN  returned'.op = "set_state"
              => \A k \in DOMAIN fired' :
                    state_spys[fired'[k].callback].attribute = "all"
                       => /\ fired'[k].attribute = None
                          /\ fired'[k].old = states[a.entity]
                          /\ fired'[k].new = states'[a.entity]
                          /\ fired'[k].old[a.attribute_name] # a.state]_vars

\* C19: the old value of a set_state is the forced previous value whenever one is
\* supplied and the stored value otherwise, and that value decides the
\* short-circuit, passes the listeners' old filter and is the old value they
\* are given.
C19_ForcedPreviousResolved ==
    [][LET a == returned'.arg
       IN  returned'.op = "set_state"
              => /\ a.state = ResolvedOld(a) => (states' = states /\ fired' = <<>>)
                 /\ a.state # ResolvedOld(a)
                       => states'[a.entity][a.attribute_name] = a.state
                 /\ \A k \in DOMAIN fired' :
                       /\ state_spys[fired'[k].callback].old \in {None, ResolvedOld(a)}
                       /\ fired'[k].attribute # None => fired'[k].old = ResolvedOld(a)]_vars

\* the smallest instant start + i * frequency_sec after the instant cur
NextAfter(s, cur) ==
    IF cur < s.start THEN s.start
    ELSE s.start + ((cur - s.start) \div s.frequency_sec + 1) * s.frequency_sec

\* C18: once an advance has been completed after its registration, the next-due
\* instant (last_run) of a repeating record is the smallest instant
\* anchor + i * period that is after the current instant.
C18_NextDueAhead ==
    \A h \in Handles :
       (Repeating(h) /\ current_datetime > registered_at[h])
          => schedulers[h].last_run = NextAfter(schedulers[h], current_datetime)

\* C20: the records that fall due at the same instant in one advance all fire,
\* and callbacks with equal fire instants are invoked in the order in which
\* their records were registered.
C20_SameInstantRegistrationOrder ==
    [][(returned'.op = "time_travel_to" /\ returned'.arg > current_datetime)
         => /\ \A h, g \in Handles :
                  \A i \in DueInstants(schedulers[h], current_datetime, returned'.arg)
                             \cap DueInstants(schedulers[g], current_datetime, returned'.arg) :
                     h < g => \E k, l \in DOMAIN fired' :
                                 /\ k < l
                                 /\ fired'[k] = [instant |-> i, handle |-> h]
                                 /\ fired'[l] = [instant |-> i, handle |-> g]
            /\ \A k, l \in DOMAIN fired' :
                  (k < l /\ fired'[k].instant = fired'[l].instant)
                     => fired'[k].handle < fired'[l].handle]_vars

\* one advance has invoked the callbacks of two records at the same instant, a
\* repeating record and a one-shot registered after it
C20_Witness ==
    /\ returned.op = "time_travel_to"
    /\ \E k, l \in DOMAIN fired :
          /\ k < l
          /\ fired[k].instant = fired[l].instant
          /\ Repeating(fired[k].handle) /\ OneShot(fired[l].handle)
          /\ fired[l].instant > registered_at[fired[l].handle]

\* C22: a repeating record is not invoked twice for the same scheduled instant:
\* no advance invokes a callback for an instant for which the advance just
\* before it has invoked the same record.
C22_InstantFiredOnce ==
    [][(returned'.op = "time_travel_to" /\ returned'.arg > current_datetime)
         => \A k \in DOMAIN fired' :
               Repeating(fired'[k].handle)
                  => \A j \in DOMAIN fired : fired[j] # fired'[k]]_vars

\* C24: the callback of a one-shot record is invoked at most once in total, also
\* across advances that a failing callback aborted and across advances started
\* by a callback.
C24_OneShotAtMostOnce ==
    \A h \in Handles : OneShot(h) => calls[h] <= 1

\* C23: a one-shot timer that a callback registered while a time_travel_to was
\* running, with an anchor that is neither in the past nor after that advance's
\* target, has been invoked exactly once when a later advance has been
\* completed.
C23_RegisteredInCallbackNotLost ==
    \A h \in Handles :
       (/\ OneShot(h) /\ ~schedulers[h].is_canceled
        /\ registered_in[h] > registered_at[h]
        /\ schedulers[h].start >= registered_at[h]
        /\ schedulers[h].start <= registered_in[h]
        /\ AtTopLevel /\ returned.op = "time_travel_to" /\ returned.value = None
        /\ current_datetime > registered_in[h])
          => calls[h] = 1

\* C25: every listener notified for a set_state is given the old and new values
\* of that mutation, a wildcard listener the mappings from just before and just
\* after it, also when a listener notified earlier has called set_state on the
\* entity in the meantime.
C25_ReportsOwnMutation ==
    [][(stack # <<>> /\ Top.kind = "set_state" /\ Len(fired') = Len(fired) + 1)
         => LET x == fired'[Len(fired')]
            IN  IF x.attribute = None
                THEN x.old = Top.prev_state /\ x.new = Top.state_entry
                ELSE /\ x.attribute = Top.arg.attribute_name
                     /\ x.old = Top.old_value
                     /\ x.new = Top.arg.state]_vars

\* C21: when a timer callback or a listener fails, the caller of the outermost
\* time_travel_to or set_state gets the failure, every batch in progress is
\* abandoned, so that no later callback of it is invoked, and the invocations
\* made so far, the stored state, the records and the clock stay as they are.
C21_FailurePropagatesNoRollback ==
    [][((InCallback \/ InListener) /\ returned'.value = "Exception")
         => /\ stack' = <<>>
            /\ returned'.op = IF stack[1].kind = "set_state" THEN "set_state"
                              ELSE "time_travel_to"
            /\ fired' = fired
            /\ UNCHANGED <<calls, states, schedulers, current_datetime>>]_vars

\* a time_travel_to has failed in a listener that a timer callback's set_state
\* notified: the state is stored, and a second listener and the callback of a
\* second collected timer were not invoked
C21_Witness ==
    /\ returned.op = "time_travel_to" /\ returned.value = "Exception"
    /\ stack = <<>>
    /\ Len(state_spys) = 2 /\ Len(fired) = 2
    /\ "handle" \in DOMAIN fired[1] /\ "callback" \in DOMAIN fired[2]
    /\ states[<<"light", "a">>]["state"] = "on"
    /\ \E h \in Handles : schedulers[h].run_count = 1 /\ calls[h] = 0

====
